---- MODULE Spec2Model ----
(***************************************************************************)
(* A model of app-monitor (main.go): the Monitor's alertTracker, its lock, *)
(* the dispatcher's rounds and one goroutine per configured application.   *)
(***************************************************************************)
EXTENDS Naturals, Integers, Sequences, FiniteSets, TLC

VARIABLES
    startup,       \* what loadConfig, time.ParseDuration and time.NewTicker will find
    config,        \* Monitor.config (immutable after load)
    mainPc,        \* position of main()
    rounds,        \* number of runChecks calls started so far
    alertTracker,  \* Monitor.alertTracker: application name -> int
    mu,            \* Monitor.mu: 0 when free, else the index of the holding goroutine
    task,          \* one goroutine per entry of config.Applications in the current round
    streak,        \* history: non-healthy outcomes processed per name since its last reset
    runAlerts,     \* history: Alerts emitted per name since its last reset
    events,        \* history: per name, the sequence of events emitted so far
    spec,          \* the specified state machine run on the same outcomes, per name
    specEvents     \* the events the specified state machine has emitted, per name

vars == <<startup, config, mainPc, rounds, alertTracker, mu, task, streak, runAlerts, events,
          spec, specEvents>>

-----------------------------------------------------------------------------
(* Bounds of the model *)

MaxRounds == 5

\* The rounds of a behaviour checked under fairness.
MaxFairRounds == 3

-----------------------------------------------------------------------------
(* Program constants *)

AlertThreshold == 2
AlertSentMark == 3
RecoveryStatusCode == 200

NoErr == ""
ConnRefused == "connection refused"

-----------------------------------------------------------------------------
(* Configuration: ApplicationConfig, WebhookConfig, Config *)

ApplicationConfig(name, enabled, code) ==
    [Name |-> name, URL |-> "http://" \o name, Enabled |-> enabled, ExpectedCode |-> code]

WebhookConfig(enabled, url, secret) ==
    [Enabled |-> enabled, URL |-> url, Secret |-> secret]

\* The configured lists: two applications, the second enabled or not; and two entries
\* with one name, which the code accepts and which then share one alertTracker entry.
AppLists ==
    { << ApplicationConfig("a", TRUE, 200), ApplicationConfig("b", e, 204) >> : e \in BOOLEAN }
        \cup { << ApplicationConfig("a", TRUE, 200), ApplicationConfig("a", TRUE, 200) >> }

WebhookConfigs ==
    { WebhookConfig(TRUE, "http://hook", "s3cret"),
      WebhookConfig(TRUE, "http://hook", ""),
      WebhookConfig(FALSE, "http://hook", "s3cret"),
      WebhookConfig(TRUE, "", "") }

Configs == [Applications : AppLists, Webhook : WebhookConfigs]

Apps == DOMAIN config.Applications
App(i) == config.Applications[i]

\* What an HTTP GET of an application URL can yield: a response status, or a transport error.
StatusCodes == {200, 204, 500}
Responses == [StatusCode : StatusCodes, err : {NoErr}] \cup {[StatusCode |-> 0, err |-> ConnRefused]}
NoResp == [StatusCode |-> 0, err |-> NoErr]


-----------------------------------------------------------------------------
(* Notifier: sendEmail, generateWebhookSignature, sendWebhook *)

\* WebhookPayload as built by sendAlert / sendRecoveryNotice.
NoPayload ==
    [Event |-> "", Application |-> "", URL |-> "", Timestamp |-> 0, StatusCode |-> 0,
     ExpectedCode |-> 0, Error |-> "", FailureCount |-> 0]

\* json.Marshal(payload): one key per struct field, "error" left out when empty (omitempty).
JSONKeys(p) ==
    {"event", "application", "url", "timestamp", "status_code", "expected_code", "failure_count"}
        \cup (IF p.Error = "" THEN {} ELSE {"error"})

Marshal(p) ==
    [k \in JSONKeys(p) |->
        CASE k = "event" -> p.Event
          [] k = "application" -> p.Application
          [] k = "url" -> p.URL
          [] k = "timestamp" -> p.Timestamp
          [] k = "status_code" -> p.StatusCode
          [] k = "expected_code" -> p.ExpectedCode
          [] k = "error" -> p.Error
          [] k = "failure_count" -> p.FailureCount]

\* "sha256=" + hex(HMAC-SHA256(secret, payload)); the MAC is kept symbolic.
generateWebhookSignature(payload, secret) ==
    [scheme |-> "sha256=", key |-> secret, msg |-> payload]

NoSignature == [scheme |-> "", key |-> "", msg |-> <<>>]

NoWebhook ==
    [called |-> FALSE, payload |-> NoPayload, posted |-> FALSE, body |-> <<>>,
     signed |-> FALSE, signature |-> NoSignature, err |-> NoErr]

\* Mutant: the two tests of the guard joined by "and".
WebhookSkipped_BothTests == ~config.Webhook.Enabled /\ config.Webhook.URL = ""

\* if !m.config.Webhook.Enabled || m.config.Webhook.URL == "" { return nil }
WebhookSkipped == ~config.Webhook.Enabled \/ config.Webhook.URL = ""

\* Mutant: the signature header is set whether or not a secret is configured.
SecretConfigured_Always == TRUE

\* if m.config.Webhook.Secret != ""
SecretConfigured == config.Webhook.Secret # ""

\* sendWebhook(payload) when the endpoint answers `reply` to the POST it may issue.
sendWebhook(payload, reply) ==
    IF WebhookSkipped
    THEN [NoWebhook EXCEPT !.called = TRUE, !.payload = payload]
    ELSE LET jsonData == Marshal(payload)
             withSecret == SecretConfigured
         IN [called |-> TRUE, payload |-> payload, posted |-> TRUE, body |-> jsonData,
             signed |-> withSecret,
             signature |-> IF withSecret
                           THEN generateWebhookSignature(jsonData, config.Webhook.Secret)
                           ELSE NoSignature,
             err |-> IF reply.err # NoErr THEN "failed to send webhook"
                     ELSE IF reply.StatusCode < 200 \/ reply.StatusCode >= 300
                          THEN "webhook request failed with status"
                          ELSE NoErr]

NoBody ==
    [template |-> "", Application |-> "", URL |-> "", Expected |-> 0, Actual |-> 0,
     Error |-> "", FailedAttempts |-> 0]

NoEmail == [attempted |-> FALSE, subject |-> "", body |-> NoBody, err |-> NoErr]

\* sendEmail(subject, body) when smtp.SendMail returns `smtpErr`.
sendEmail(subject, body, smtpErr) ==
    [attempted |-> TRUE, subject |-> subject, body |-> body, err |-> smtpErr]

SMTPResults == {NoErr, "smtp error"}

-----------------------------------------------------------------------------
(* The specified state tracker: one record (consecutiveFailures, alertSent) per application *)

SpecInit == [consecutiveFailures |-> 0, alertSent |-> FALSE]

\* On a non-healthy outcome: increment; at exactly the threshold with no alert sent, emit
\* an Alert and (delivery attempted) mark alertSent.
SpecOnFailure(s) ==
    LET c == s.consecutiveFailures + 1
        due == c = AlertThreshold /\ ~s.alertSent
    IN [next |-> [consecutiveFailures |-> c, alertSent |-> s.alertSent \/ due],
        emit |-> IF due THEN <<"application_down">> ELSE <<>>]

\* On a healthy outcome: emit a Recovery if alertSent, and reset.
SpecOnHealthy(s) ==
    [next |-> SpecInit,
     emit |-> IF s.alertSent THEN <<"application_recovery">> ELSE <<>>]

\* The specified machine processes the outcome the code is processing for `name`.
SpecStep(name, healthy) ==
    LET r == IF healthy THEN SpecOnHealthy(spec[name]) ELSE SpecOnFailure(spec[name])
    IN /\ spec' = [spec EXCEPT ![name] = r.next]
       /\ specEvents' = [specEvents EXCEPT ![name] = @ \o r.emit]

-----------------------------------------------------------------------------
(* Goroutines of one round *)

IdleTask ==
    [pc |-> "idle", resp |-> NoResp, statusCode |-> 0, err |-> NoErr,
     email |-> NoEmail, webhook |-> NoWebhook]

AllNames == {"a", "b"}

\* The errors of loadConfig and time.ParseDuration. An interval that parses but is not
\* positive ("0s") is none of them: time.NewTicker panics on it after the initial round.
ConfigErrors == {"open failed", "decode failed", "invalid interval"}

Init ==
    /\ startup \in {"ok", "nonpositive interval"} \cup ConfigErrors
    /\ config \in Configs
    /\ mainPc = "loadConfig"
    /\ rounds = 0
    /\ alertTracker = [n \in AllNames |-> 0]
    /\ mu = 0
    /\ task = [i \in DOMAIN config.Applications |-> IdleTask]
    /\ streak = [n \in AllNames |-> 0]
    /\ runAlerts = [n \in AllNames |-> 0]
    /\ events = [n \in AllNames |-> <<>>]
    /\ spec = [n \in AllNames |-> SpecInit]
    /\ specEvents = [n \in AllNames |-> <<>>]

history == <<streak, runAlerts, events, spec, specEvents>>


-----------------------------------------------------------------------------
(* main: loadConfig, the initial runChecks, the ticker loop *)

\* Mutant: the startup errors are logged and main goes on.
loadConfig_ErrorIgnored ==
    /\ mainPc = "loadConfig"
    /\ mainPc' = "initial"
    /\ UNCHANGED <<startup, config, rounds, alertTracker, mu, task, history>>

\* main up to the construction of the Monitor: a config or interval error is fatal.
loadConfig ==
    /\ mainPc = "loadConfig"
    /\ mainPc' = IF startup \in ConfigErrors THEN "fatal" ELSE "initial"
    /\ UNCHANGED <<startup, config, rounds, alertTracker, mu, task, history>>

\* runChecks, first half: one goroutine per entry of config.Applications.
spawn ==
    /\ rounds' = rounds + 1
    /\ task' = [i \in Apps |-> [IdleTask EXCEPT !.pc = "checkApplication"]]
    /\ mainPc' = "wg.Wait"
    /\ UNCHANGED <<startup, config, alertTracker, mu, history>>

InitialCheck ==
    /\ mainPc = "initial"
    /\ spawn

\* Mutant: runChecks returns without waiting for its goroutines.
wgWait_NoWait ==
    /\ mainPc = "wg.Wait"
    /\ mainPc' = IF rounds = 1 THEN "NewTicker" ELSE "ticker"
    /\ UNCHANGED <<startup, config, rounds, alertTracker, mu, task, history>>

\* runChecks, second half: wg.Wait returns once every goroutine of the round is done.
wgWait ==
    /\ mainPc = "wg.Wait"
    /\ \A i \in Apps : task[i].pc = "done"
    /\ mainPc' = IF rounds = 1 THEN "NewTicker" ELSE "ticker"
    /\ task' = [i \in Apps |-> IdleTask]
    /\ UNCHANGED <<startup, config, rounds, alertTracker, mu, history>>

\* ticker := time.NewTicker(checkInterval), which panics unless the interval is positive.
NewTicker ==
    /\ mainPc = "NewTicker"
    /\ mainPc' = IF startup = "nonpositive interval" THEN "panic" ELSE "ticker"
    /\ UNCHANGED <<startup, config, rounds, alertTracker, mu, task, history>>

\* for range ticker.C
Tick ==
    /\ mainPc = "ticker"
    /\ rounds < MaxRounds
    /\ spawn

-----------------------------------------------------------------------------
(* Probe: checkApplication *)

Healthy(i, r) == r.err = NoErr /\ r.StatusCode = App(i).ExpectedCode

\* Mutant: the enabled flag is not tested.
checkApplication_IgnoresEnabled(i) ==
    /\ task[i].pc = "checkApplication"
    /\ \E r \in Responses :
         task' = [task EXCEPT
             ![i].resp = r,
             ![i].statusCode = IF r.err # NoErr THEN 0 ELSE r.StatusCode,
             ![i].err = r.err,
             ![i].pc = IF Healthy(i, r) THEN "sendRecoveryNotice" ELSE "sendAlert"]
    /\ UNCHANGED <<startup, config, mainPc, rounds, alertTracker, mu, history>>

checkApplication(i) ==
    /\ task[i].pc = "checkApplication"
    /\ IF ~App(i).Enabled
       THEN task' = [task EXCEPT ![i].pc = "done"]
       ELSE \E r \in Responses :
              task' = [task EXCEPT
                  ![i].resp = r,
                  ![i].statusCode = IF r.err # NoErr THEN 0 ELSE r.StatusCode,
                  ![i].err = r.err,
                  ![i].pc = IF Healthy(i, r) THEN "sendRecoveryNotice" ELSE "sendAlert"]
    /\ UNCHANGED <<startup, config, mainPc, rounds, alertTracker, mu, history>>

-----------------------------------------------------------------------------
(* State tracker: sendAlert *)

\* Mutant: the alert fires on the first failure.
AlertDue_OnFirstFailure(count) == count = AlertThreshold - 1

\* Mutant: the alert fires at every count from the threshold on.
AlertDue_AtLeast(count) == count >= AlertThreshold

\* if m.alertTracker[application.Name] == 2
AlertDue(count) == count = AlertThreshold

AlertSubject(app) == "ALERT: " \o app.Name \o " is DOWN"

AlertBody(app, statusCode, err) ==
    IF err # NoErr
    THEN [template |-> "Connection Failed", Application |-> app.Name, URL |-> app.URL,
          Expected |-> 0, Actual |-> 0, Error |-> err, FailedAttempts |-> 2]
    ELSE [template |-> "Expected/Actual Status", Application |-> app.Name, URL |-> app.URL,
          Expected |-> app.ExpectedCode, Actual |-> statusCode, Error |-> NoErr,
          FailedAttempts |-> 2]

\* Mutant: the error is never copied into the payload.
AlertPayload_NoError(app, statusCode, err, now) ==
    [Event |-> "application_down", Application |-> app.Name, URL |-> app.URL,
     Timestamp |-> now, StatusCode |-> statusCode, ExpectedCode |-> app.ExpectedCode,
     Error |-> NoErr, FailureCount |-> 2]

AlertPayload(app, statusCode, err, now) ==
    [Event |-> "application_down", Application |-> app.Name, URL |-> app.URL,
     Timestamp |-> now, StatusCode |-> statusCode, ExpectedCode |-> app.ExpectedCode,
     Error |-> err, FailureCount |-> 2]

\* Mutant: sendAlert does not wait for the lock (a shared RLock in place of Lock).
sendAlert_NoLock(i) ==
    LET name == App(i).Name
        count == alertTracker[name] + 1
    IN /\ task[i].pc = "sendAlert"
       /\ alertTracker' = [alertTracker EXCEPT ![name] = count]
       /\ streak' = [streak EXCEPT ![name] = @ + 1]
       /\ SpecStep(name, FALSE)
       /\ IF AlertDue(count)
          THEN /\ mu' = i
               /\ task' = [task EXCEPT ![i].pc = "alert.sendEmail"]
               /\ events' = [events EXCEPT ![name] = Append(@, "application_down")]
               /\ runAlerts' = [runAlerts EXCEPT ![name] = @ + 1]
          ELSE /\ mu' = mu
               /\ task' = [task EXCEPT ![i].pc = "done"]
               /\ UNCHANGED <<events, runAlerts>>
       /\ UNCHANGED <<startup, config, mainPc, rounds>>

\* Mutant: the lock is released before the alert is delivered.
sendAlert_UnlockBeforeSend(i) ==
    LET name == App(i).Name
        count == alertTracker[name] + 1
    IN /\ task[i].pc = "sendAlert"
       /\ mu = 0
       /\ mu' = 0
       /\ alertTracker' = [alertTracker EXCEPT ![name] = count]
       /\ streak' = [streak EXCEPT ![name] = @ + 1]
       /\ SpecStep(name, FALSE)
       /\ IF AlertDue(count)
          THEN /\ task' = [task EXCEPT ![i].pc = "alert.sendEmail"]
               /\ events' = [events EXCEPT ![name] = Append(@, "application_down")]
               /\ runAlerts' = [runAlerts EXCEPT ![name] = @ + 1]
          ELSE /\ task' = [task EXCEPT ![i].pc = "done"]
               /\ UNCHANGED <<events, runAlerts>>
       /\ UNCHANGED <<startup, config, mainPc, rounds>>

\* Lock, increment the counter, test it; return (unlocking) unless the alert is due.
sendAlert(i) ==
    LET name == App(i).Name
        count == alertTracker[name] + 1
    IN /\ task[i].pc = "sendAlert"
       /\ mu = 0
       /\ alertTracker' = [alertTracker EXCEPT ![name] = count]
       /\ streak' = [streak EXCEPT ![name] = @ + 1]
       /\ SpecStep(name, FALSE)
       /\ IF AlertDue(count)
          THEN /\ mu' = i
               /\ task' = [task EXCEPT ![i].pc = "alert.sendEmail"]
               /\ events' = [events EXCEPT ![name] = Append(@, "application_down")]
               /\ runAlerts' = [runAlerts EXCEPT ![name] = @ + 1]
          ELSE /\ mu' = 0
               /\ task' = [task EXCEPT ![i].pc = "done"]
               /\ UNCHANGED <<events, runAlerts>>
       /\ UNCHANGED <<startup, config, mainPc, rounds>>

\* Mutant: sendAlert returns when the email fails, without trying the webhook.
alertSendEmail_ReturnOnError(i) ==
    /\ task[i].pc = "alert.sendEmail"
    /\ \E smtpErr \in SMTPResults :
         task' = [task EXCEPT
             ![i].email = sendEmail(AlertSubject(App(i)),
                                    AlertBody(App(i), task[i].statusCode, task[i].err),
                                    smtpErr),
             ![i].pc = IF smtpErr = NoErr THEN "alert.sendWebhook" ELSE "alert.mark"]
    /\ UNCHANGED <<startup, config, mainPc, rounds, alertTracker, mu, history>>

alertSendEmail(i) ==
    /\ task[i].pc = "alert.sendEmail"
    /\ \E smtpErr \in SMTPResults :
         task' = [task EXCEPT
             ![i].email = sendEmail(AlertSubject(App(i)),
                                    AlertBody(App(i), task[i].statusCode, task[i].err),
                                    smtpErr),
             ![i].pc = "alert.sendWebhook"]
    /\ UNCHANGED <<startup, config, mainPc, rounds, alertTracker, mu, history>>

alertSendWebhook(i) ==
    /\ task[i].pc = "alert.sendWebhook"
    /\ \E reply \in Responses :
         task' = [task EXCEPT
             ![i].webhook = sendWebhook(
                 AlertPayload(App(i), task[i].statusCode, task[i].err, rounds), reply),
             ![i].pc = "alert.mark"]
    /\ UNCHANGED <<startup, config, mainPc, rounds, alertTracker, mu, history>>

\* Mutant: the alert is never recorded as sent.
alertMark_Forgotten(i) ==
    /\ task[i].pc = "alert.mark"
    /\ mu' = 0
    /\ task' = [task EXCEPT ![i].pc = "done"]
    /\ UNCHANGED <<startup, config, mainPc, rounds, alertTracker, history>>

\* Mutant: the alert is recorded as sent only when a channel delivered it.
alertMark_OnlyIfDelivered(i) ==
    /\ task[i].pc = "alert.mark"
    /\ alertTracker' = [alertTracker EXCEPT ![App(i).Name] =
           IF task[i].email.err = NoErr \/ task[i].webhook.err = NoErr
           THEN AlertSentMark ELSE AlertThreshold - 1]
    /\ mu' = 0
    /\ task' = [task EXCEPT ![i].pc = "done"]
    /\ UNCHANGED <<startup, config, mainPc, rounds, history>>

\* m.alertTracker[application.Name] = 3, then the deferred Unlock.
alertMark(i) ==
    /\ task[i].pc = "alert.mark"
    /\ alertTracker' = [alertTracker EXCEPT ![App(i).Name] = AlertSentMark]
    /\ mu' = 0
    /\ task' = [task EXCEPT ![i].pc = "done"]
    /\ UNCHANGED <<startup, config, mainPc, rounds, history>>

-----------------------------------------------------------------------------
(* State tracker: sendRecoveryNotice *)

\* Mutant: the comparison includes the mark itself.
NoAlertSent_OffByOne(count) == count <= AlertSentMark

\* Mutant: the guard is missing, every healthy outcome sends a recovery notice.
NoAlertSent_Dropped(count) == FALSE

\* if m.alertTracker[application.Name] < 3 { reset; return }
NoAlertSent(count) == count < AlertSentMark

RecoverySubject(app) == "RECOVERY: " \o app.Name \o " is back online"

RecoveryBody(app) ==
    [template |-> "Status: OK", Application |-> app.Name, URL |-> app.URL,
     Expected |-> 0, Actual |-> 0, Error |-> NoErr, FailedAttempts |-> 0]

\* Mutant: the payload reports the status the healthy probe returned.
RecoveryPayload_ProbeStatus(app, now) ==
    [Event |-> "application_recovery", Application |-> app.Name, URL |-> app.URL,
     Timestamp |-> now, StatusCode |-> app.ExpectedCode, ExpectedCode |-> app.ExpectedCode,
     Error |-> NoErr, FailureCount |-> 0]

RecoveryPayload(app, now) ==
    [Event |-> "application_recovery", Application |-> app.Name, URL |-> app.URL,
     Timestamp |-> now, StatusCode |-> RecoveryStatusCode, ExpectedCode |-> app.ExpectedCode,
     Error |-> NoErr, FailureCount |-> 0]

\* Mutant: the early return of the branch without a recovery notice does not unlock
\* (an explicit Unlock at the end of the function instead of the deferred one).
sendRecoveryNotice_ReturnsLocked(i) ==
    LET name == App(i).Name
    IN /\ task[i].pc = "sendRecoveryNotice"
       /\ mu = 0
       /\ SpecStep(name, TRUE)
       /\ IF NoAlertSent(alertTracker[name])
          THEN /\ alertTracker' = [alertTracker EXCEPT ![name] = 0]
               /\ mu' = i
               /\ task' = [task EXCEPT ![i].pc = "done"]
               /\ streak' = [streak EXCEPT ![name] = 0]
               /\ runAlerts' = [runAlerts EXCEPT ![name] = 0]
               /\ UNCHANGED events
          ELSE /\ mu' = i
               /\ task' = [task EXCEPT ![i].pc = "recovery.sendEmail"]
               /\ events' = [events EXCEPT ![name] = Append(@, "application_recovery")]
               /\ UNCHANGED <<alertTracker, streak, runAlerts>>
       /\ UNCHANGED <<startup, config, mainPc, rounds>>

\* Mutant: the branch without a recovery notice does not reset the counter.
sendRecoveryNotice_NoSilentReset(i) ==
    LET name == App(i).Name
    IN /\ task[i].pc = "sendRecoveryNotice"
       /\ mu = 0
       /\ SpecStep(name, TRUE)
       /\ IF NoAlertSent(alertTracker[name])
          THEN /\ mu' = 0
               /\ task' = [task EXCEPT ![i].pc = "done"]
               /\ streak' = [streak EXCEPT ![name] = 0]
               /\ runAlerts' = [runAlerts EXCEPT ![name] = 0]
               /\ UNCHANGED <<alertTracker, events>>
          ELSE /\ mu' = i
               /\ task' = [task EXCEPT ![i].pc = "recovery.sendEmail"]
               /\ events' = [events EXCEPT ![name] = Append(@, "application_recovery")]
               /\ UNCHANGED <<alertTracker, streak, runAlerts>>
       /\ UNCHANGED <<startup, config, mainPc, rounds>>

\* Lock, test the counter; reset and return (unlocking) unless an alert was sent.
sendRecoveryNotice(i) ==
    LET name == App(i).Name
    IN /\ task[i].pc = "sendRecoveryNotice"
       /\ mu = 0
       /\ SpecStep(name, TRUE)
       /\ IF NoAlertSent(alertTracker[name])
          THEN /\ alertTracker' = [alertTracker EXCEPT ![name] = 0]
               /\ mu' = 0
               /\ task' = [task EXCEPT ![i].pc = "done"]
               /\ streak' = [streak EXCEPT ![name] = 0]
               /\ runAlerts' = [runAlerts EXCEPT ![name] = 0]
               /\ UNCHANGED events
          ELSE /\ mu' = i
               /\ task' = [task EXCEPT ![i].pc = "recovery.sendEmail"]
               /\ events' = [events EXCEPT ![name] = Append(@, "application_recovery")]
               /\ UNCHANGED <<alertTracker, streak, runAlerts>>
       /\ UNCHANGED <<startup, config, mainPc, rounds>>

recoverySendEmail(i) ==
    /\ task[i].pc = "recovery.sendEmail"
    /\ \E smtpErr \in SMTPResults :
         task' = [task EXCEPT
             ![i].email = sendEmail(RecoverySubject(App(i)), RecoveryBody(App(i)), smtpErr),
             ![i].pc = "recovery.sendWebhook"]
    /\ UNCHANGED <<startup, config, mainPc, rounds, alertTracker, mu, history>>

recoverySendWebhook(i) ==
    /\ task[i].pc = "recovery.sendWebhook"
    /\ \E reply \in Responses :
         task' = [task EXCEPT
             ![i].webhook = sendWebhook(RecoveryPayload(App(i), rounds), reply),
             ![i].pc = "recovery.reset"]
    /\ UNCHANGED <<startup, config, mainPc, rounds, alertTracker, mu, history>>

\* Mutant: the counter is not reset after the recovery notice.
recoveryReset_Forgotten(i) ==
    /\ task[i].pc = "recovery.reset"
    /\ mu' = 0
    /\ task' = [task EXCEPT ![i].pc = "done"]
    /\ streak' = [streak EXCEPT ![App(i).Name] = 0]
    /\ runAlerts' = [runAlerts EXCEPT ![App(i).Name] = 0]
    /\ UNCHANGED <<startup, config, mainPc, rounds, alertTracker, events, spec, specEvents>>

\* Mutant: the recovery clears the whole map instead of the one entry.
recoveryReset_ClearsAll(i) ==
    /\ task[i].pc = "recovery.reset"
    /\ alertTracker' = [n \in AllNames |-> 0]
    /\ mu' = 0
    /\ task' = [task EXCEPT ![i].pc = "done"]
    /\ streak' = [streak EXCEPT ![App(i).Name] = 0]
    /\ runAlerts' = [runAlerts EXCEPT ![App(i).Name] = 0]
    /\ UNCHANGED <<startup, config, mainPc, rounds, events, spec, specEvents>>

\* m.alertTracker[application.Name] = 0, then the deferred Unlock.
recoveryReset(i) ==
    /\ task[i].pc = "recovery.reset"
    /\ alertTracker' = [alertTracker EXCEPT ![App(i).Name] = 0]
    /\ mu' = 0
    /\ task' = [task EXCEPT ![i].pc = "done"]
    /\ streak' = [streak EXCEPT ![App(i).Name] = 0]
    /\ runAlerts' = [runAlerts EXCEPT ![App(i).Name] = 0]
    /\ UNCHANGED <<startup, config, mainPc, rounds, events, spec, specEvents>>

-----------------------------------------------------------------------------

Next ==
    \/ loadConfig
    \/ InitialCheck
    \/ wgWait
    \/ NewTicker
    \/ Tick
    \/ \E i \in Apps : checkApplication(i)
    \/ \E i \in Apps : sendAlert(i)
    \/ \E i \in Apps : alertSendEmail(i)
    \/ \E i \in Apps : alertSendWebhook(i)
    \/ \E i \in Apps : alertMark(i)
    \/ \E i \in Apps : sendRecoveryNotice(i)
    \/ \E i \in Apps : recoverySendEmail(i)
    \/ \E i \in Apps : recoverySendWebhook(i)
    \/ \E i \in Apps : recoveryReset(i)

Spec == Init /\ [][Next]_vars

\* The goroutine ids of any configuration.
GoroutineIds == UNION { DOMAIN l : l \in AppLists }

\* The steps of the goroutine runChecks started for entry i.
goroutine(i) ==
    /\ i \in Apps
    /\ \/ checkApplication(i)
       \/ sendAlert(i)
       \/ alertSendEmail(i)
       \/ alertSendWebhook(i)
       \/ alertMark(i)
       \/ sendRecoveryNotice(i)
       \/ recoverySendEmail(i)
       \/ recoverySendWebhook(i)
       \/ recoveryReset(i)

\* The program under a fair scheduler and with probes and deliveries that return: a
\* goroutine that can take its next step eventually takes it, and so does main once
\* wg.Wait can return.  The ticker is not assumed to fire.
FairTick ==
    /\ mainPc = "ticker"
    /\ rounds < MaxFairRounds
    /\ spawn

FairNext ==
    \/ loadConfig
    \/ InitialCheck
    \/ wgWait
    \/ NewTicker
    \/ FairTick
    \/ \E i \in Apps : goroutine(i)

FairSpec ==
    /\ Init
    /\ [][FairNext]_vars
    /\ WF_vars(wgWait)
    /\ \A i \in GoroutineIds : WF_vars(goroutine(i))


-----------------------------------------------------------------------------
(* Vocabulary of the properties *)

Name(i) == App(i).Name

\* "previously sent an alert (count >= 3)"
alertSent(n) == alertTracker[n] >= AlertSentMark

AlertPcs == {"alert.sendEmail", "alert.sendWebhook", "alert.mark"}
RecoveryPcs == {"recovery.sendEmail", "recovery.sendWebhook", "recovery.reset"}

\* The probe of goroutine i returned, and what it returned is not healthy.
Unhealthy(i) == task[i].resp \in Responses /\ ~Healthy(i, task[i].resp)

\* This step appends event e to the events of name n.
Emitted(n, e) == events'[n] = Append(events[n], e)

\* This step is goroutine i leaving position `from`.
Leaves(i, from) == task[i].pc = from /\ task'[i].pc # from

\* Goroutine i has sent nothing on either channel.
Silent(t) == t.email = NoEmail /\ t.webhook = NoWebhook

-----------------------------------------------------------------------------
(* C1 *)

C1_Sending ==
    \A i \in Apps :
        /\ task[i].pc \in AlertPcs => streak[Name(i)] = AlertThreshold /\ Unhealthy(i) /\ mu = i
        /\ (task[i].email.subject = AlertSubject(App(i))
              \/ task[i].webhook.payload.Event = "application_down")
           => Unhealthy(i) /\ task[i].pc \in AlertPcs \cup {"done"}

C1_Step ==
    \A n \in AllNames :
        Emitted(n, "application_down") =>
            /\ streak[n] = 1
            /\ streak'[n] = 2
            /\ \E i \in Apps : /\ Name(i) = n
                               /\ Leaves(i, "sendAlert")
                               /\ Unhealthy(i)
                               /\ task'[i].pc = "alert.sendEmail"

\* C1: an Alert is emitted only by the step that processes a non-healthy outcome (wrong
\* status or transport error alike) that is exactly the second consecutive non-healthy
\* outcome of the application since its last healthy outcome or since startup; alert
\* emails and application_down webhooks are sent only by a goroutine in that position.
\* Never on the first failure of a streak, never on a healthy outcome.
C1_AlertOnlyOnSecondFailure == []C1_Sending /\ [][C1_Step]_vars

C1_Witness ==
    \E i \in Apps : /\ task[i].pc = "alert.sendEmail"
                    /\ task[i].resp.err = ConnRefused
                    /\ streak[Name(i)] = 2
                    /\ rounds = 2

-----------------------------------------------------------------------------
(* C2 *)

C2_Count == \A n \in AllNames : runAlerts[n] <= 1

C2_Step ==
    \A i \in Apps :
        Leaves(i, "sendAlert") /\ streak[Name(i)] >= AlertThreshold =>
            /\ task'[i].pc = "done"
            /\ Silent(task'[i])
            /\ mu' = 0
            /\ UNCHANGED <<events, runAlerts>>

\* C2: at most one Alert is emitted per unbroken run of consecutive non-healthy outcomes
\* of an application; the third, fourth, fifth, ... failure of the run is processed
\* without sending anything on any channel.
C2_OneAlertPerRun == []C2_Count /\ [][C2_Step]_vars

C2_Witness ==
    \E i \in Apps : /\ streak[Name(i)] = 5
                    /\ runAlerts[Name(i)] = 1
                    /\ task[i].pc = "done"
                    /\ Unhealthy(i)
                    /\ Silent(task[i])

-----------------------------------------------------------------------------
(* C3 *)

C3_Step ==
    \A i \in Apps :
        LET n == Name(i)
        IN /\ Leaves(i, "sendRecoveryNotice") =>
                /\ Emitted(n, "application_recovery") <=> alertSent(n)
                /\ Emitted(n, "application_recovery") <=> runAlerts[n] = 1
                /\ Emitted(n, "application_recovery") <=> task'[i].pc = "recovery.sendEmail"
                /\ streak[n] < AlertThreshold =>
                      /\ UNCHANGED events
                      /\ task'[i].pc = "done"
                      /\ Silent(task'[i])
                      /\ alertTracker'[n] = 0
           /\ Emitted(n, "application_recovery") =>
                \E j \in Apps : Name(j) = n /\ Leaves(j, "sendRecoveryNotice")
                               /\ Healthy(j, task[j].resp)

\* C3: processing a healthy outcome emits a Recovery if and only if alertSent is true
\* for the application at that moment (an Alert was emitted in the run being ended);
\* a healthy outcome after fewer than 2 consecutive failures sends nothing and resets
\* the counter to 0. A Recovery is emitted by no other step.
C3_RecoveryIffAlertSent == [][C3_Step]_vars

C3_Witness ==
    \E i \in Apps : /\ task[i].pc = "recovery.sendEmail"
                    /\ Healthy(i, task[i].resp)
                    /\ alertSent(Name(i))
                    /\ \E j \in Apps : /\ task[j].pc = "done"
                                       /\ Healthy(j, task[j].resp)
                                       /\ Silent(task[j])

-----------------------------------------------------------------------------
(* C4 *)

Alternates(es) ==
    \A k \in 1..Len(es) :
        es[k] = IF k % 2 = 1 THEN "application_down" ELSE "application_recovery"

\* C4: the events emitted for an application strictly alternate Alert, Recovery, Alert,
\* Recovery, ... starting with an Alert: no Recovery without an unmatched Alert before
\* it, no second Alert before the Recovery of the previous one.
C4_EventsAlternate == \A n \in AllNames : Alternates(events[n])

C4_Witness ==
    \E n \in AllNames :
        events[n] = <<"application_down", "application_recovery", "application_down">>

-----------------------------------------------------------------------------
(* C5 *)

C5_Step ==
    \A i \in Apps :
        LET n == Name(i)
        IN Leaves(i, "sendRecoveryNotice") /\ alertTracker[n] = 0 =>
              /\ UNCHANGED events
              /\ alertTracker'[n] = 0
              /\ ~alertSent(n)'
              /\ task'[i].pc = "done"
              /\ Silent(task'[i])

C5_NeverFailed ==
    \A n \in AllNames :
        events[n] = <<>> /\ streak[n] = 0 /\ alertTracker[n] = 0 =>
            \A i \in Apps : Name(i) = n => task[i].pc \notin AlertPcs \cup RecoveryPcs

\* C5: a healthy outcome processed while the application is in the reset state
\* (counter 0, no alert sent: never alerted, or after a Recovery) emits no event, sends
\* nothing and leaves the counter at 0 with alertSent false, however often it is repeated.
C5_HealthyIdempotent == []C5_NeverFailed /\ [][C5_Step]_vars

C5_Witness ==
    \E i \in Apps : /\ task[i].pc = "done"
                    /\ Healthy(i, task[i].resp)
                    /\ Silent(task[i])
                    /\ events[Name(i)] = <<"application_down", "application_recovery">>
                    /\ alertTracker[Name(i)] = 0

-----------------------------------------------------------------------------
(* C6 *)

\* C6: alertSent (counter >= 3) holds for an application only if at least 2 consecutive
\* non-healthy outcomes were processed for it since its last reset, and then exactly one
\* Alert was emitted in that run; the counter is never negative.
C6_AlertSentOnlyAfterThreshold ==
    \A n \in AllNames :
        /\ alertTracker[n] \in Nat
        /\ alertSent(n) => streak[n] >= AlertThreshold /\ runAlerts[n] = 1
        /\ ~(alertSent(n) /\ streak[n] = 0)

C6_Witness ==
    \E n \in AllNames : alertSent(n) /\ streak[n] = 3 /\ mu = 0

-----------------------------------------------------------------------------
(* C7 *)

C7_Step ==
    \A i \in Apps :
        LET n == Name(i)
        IN /\ Leaves(i, "alert.mark") => alertSent(n)' /\ task'[i].pc = "done"
           /\ Leaves(i, "recovery.reset") =>
                  alertTracker'[n] = 0 /\ ~alertSent(n)' /\ task'[i].pc = "done"
           /\ task[i].pc \in {"alert.sendEmail", "alert.sendWebhook",
                              "recovery.sendEmail", "recovery.sendWebhook"}
              /\ task'[i] # task[i]
              => UNCHANGED <<alertTracker, events>>
           /\ Leaves(i, "sendAlert") /\ alertSent(n) =>
                  alertSent(n)' /\ task'[i].pc = "done" /\ Silent(task'[i])

\* C7: the outcome of a delivery never influences the state machine: the step that
\* ends an Alert leaves alertSent true and the step that ends a Recovery leaves the
\* counter at 0 whatever the email and the webhook returned, the sends themselves change
\* neither counter nor events, and a failure processed while alertSent is true sends
\* nothing again.
C7_DeliveryErrorsIgnored == [][C7_Step]_vars

C7_Witness ==
    \E i \in Apps : /\ task[i].pc = "done"
                    /\ task[i].webhook.payload.Event = "application_down"
                    /\ task[i].email.err # NoErr
                    /\ task[i].webhook.err # NoErr
                    /\ alertTracker[Name(i)] = AlertSentMark

-----------------------------------------------------------------------------
(* C8 *)

\* C8: for every Alert and every Recovery both channels are attempted: once the
\* goroutine is past the sends, the email was attempted and sendWebhook was called, and
\* with the webhook enabled with a URL the POST was issued, whatever the email returned.
C8_BothChannelsAttempted ==
    \A i \in Apps :
        /\ task[i].pc \in {"alert.sendWebhook", "recovery.sendWebhook"} =>
              task[i].email.attempted
        /\ task[i].pc \in {"alert.mark", "recovery.reset"} =>
              /\ task[i].email.attempted
              /\ task[i].webhook.called
              /\ (config.Webhook.Enabled /\ config.Webhook.URL # "") => task[i].webhook.posted
        /\ task[i].pc = "done" => (task[i].email.attempted <=> task[i].webhook.called)

C8_Witness ==
    \E i \in Apps : /\ task[i].pc = "alert.mark"
                    /\ task[i].email.err # NoErr
                    /\ task[i].webhook.posted
                    /\ task[i].webhook.err = NoErr

-----------------------------------------------------------------------------
(* C9 *)

WebhookOff == ~config.Webhook.Enabled \/ config.Webhook.URL = ""

C9_NoPost ==
    WebhookOff =>
        \A i \in Apps :
            /\ ~task[i].webhook.posted
            /\ task[i].webhook.err = NoErr
            /\ task[i].webhook.called => task[i].email.attempted

C9_Step ==
    WebhookOff =>
        \A i \in Apps :
            /\ Leaves(i, "alert.mark") => alertSent(Name(i))'
            /\ Leaves(i, "recovery.reset") => alertTracker'[Name(i)] = 0

\* C9: with the webhook disabled or its URL empty no POST is ever issued for an Alert
\* or a Recovery, sendWebhook returns no error, the email of the same event has been
\* attempted and the state transition of the event still happens.
C9_DisabledWebhookSkipped == []C9_NoPost /\ [][C9_Step]_vars

C9_Witness ==
    /\ ~config.Webhook.Enabled
    /\ config.Webhook.URL # ""
    /\ \E i \in Apps : /\ task[i].pc = "done"
                       /\ task[i].email.attempted
                       /\ task[i].webhook.called
                       /\ ~task[i].webhook.posted
                       /\ task[i].webhook.payload.Event = "application_down"
                       /\ alertSent(Name(i))

-----------------------------------------------------------------------------
(* C10 *)

\* C10: every Alert carries failure_count 2 and the data of the outcome being processed
\* (the one that brought the count to 2): after a wrong status, status_code is the status
\* received and the error field is absent; after a transport failure, status_code is 0
\* and the error field is set; expected_code is the configured expected code.
C10_AlertPayload ==
    \A i \in Apps :
        LET w == task[i].webhook
            p == w.payload
            r == task[i].resp
        IN w.called /\ p.Event = "application_down" =>
              /\ p.FailureCount = 2
              /\ p.Application = Name(i)
              /\ p.ExpectedCode = App(i).ExpectedCode
              /\ task[i].email.body.FailedAttempts = 2
              /\ r.err = NoErr =>
                    /\ p.StatusCode = r.StatusCode
                    /\ p.StatusCode # App(i).ExpectedCode
                    /\ p.Error = ""
                    /\ w.posted => "error" \notin DOMAIN w.body
              /\ r.err # NoErr =>
                    /\ p.StatusCode = 0
                    /\ p.Error = r.err
                    /\ w.posted => "error" \in DOMAIN w.body /\ w.body["error"] = r.err
              /\ w.posted =>
                    /\ w.body["failure_count"] = 2
                    /\ w.body["status_code"] = p.StatusCode
                    /\ w.body["expected_code"] = App(i).ExpectedCode
                    /\ w.body["event"] = "application_down"

C10_Witness ==
    \E i, j \in Apps :
        /\ task[i].webhook.posted
        /\ task[i].webhook.payload.Event = "application_down"
        /\ task[i].resp.err = ConnRefused
        /\ task[i].webhook.body["status_code"] = 0
        /\ task[j].webhook.posted
        /\ task[j].webhook.payload.Event = "application_down"
        /\ task[j].webhook.body["status_code"] = 500


-----------------------------------------------------------------------------
(* C11 *)

\* Goroutine i is between Lock and Unlock.
InCritical(i) == task[i].pc \in AlertPcs \cup RecoveryPcs

\* No increment is lost: outside the alert's own critical section the counter is the
\* number of failures of the run, plus one once the alert of the run was recorded.
C11_Counter ==
    \A n \in AllNames :
        IF mu # 0 /\ Name(mu) = n /\ task[mu].pc \in AlertPcs
        THEN alertTracker[n] = AlertThreshold /\ streak[n] = AlertThreshold /\ runAlerts[n] = 1
        ELSE alertTracker[n] = streak[n] + runAlerts[n]

C11_Exclusive ==
    /\ \A i \in Apps : InCritical(i) <=> mu = i
    /\ \A i, j \in Apps : InCritical(i) /\ InCritical(j) => i = j

\* N goroutines of one round report failures for one name: exactly one Alert.
C11_OneAlert ==
    \A i, j \in Apps :
        i # j /\ Name(i) = Name(j) /\ task[i].pc = "done" /\ task[j].pc = "done"
              /\ Unhealthy(i) /\ Unhealthy(j) /\ streak[Name(i)] = AlertThreshold
        => /\ runAlerts[Name(i)] = 1
           /\ events[Name(i)] # <<>>
           /\ events[Name(i)][Len(events[Name(i)])] = "application_down"
           /\ alertSent(Name(i))
           /\ task[i].email.attempted # task[j].email.attempted

C11_Step ==
    /\ \A i \in Apps :
          Leaves(i, "sendAlert") \/ Leaves(i, "sendRecoveryNotice") =>
              /\ mu = 0
              /\ alertTracker[Name(i)] # AlertThreshold
              /\ alertSent(Name(i)) <=> runAlerts[Name(i)] = 1
    /\ \A n \in AllNames :
          alertTracker'[n] # alertTracker[n] \/ events'[n] # events[n] =>
              \E i \in Apps : /\ Name(i) = n
                              /\ task'[i] # task[i]
                              /\ mu = i \/ (mu = 0 /\ task[i].pc \in {"sendAlert", "sendRecoveryNotice"})

\* C11: every outcome's read-modify-write of the counter and its notification decision
\* are atomic under any interleaving: no increment is lost, a goroutine entering
\* sendAlert or sendRecoveryNotice never sees the counter at 2 (alert decided, not yet
\* recorded) nor alertSent out of step with the alerts emitted, counter and events change
\* only in the step of the lock holder, and two goroutines failing for one name in one
\* round give exactly one Alert.
C11_AtomicTracking == [](C11_Counter /\ C11_Exclusive /\ C11_OneAlert) /\ [][C11_Step]_vars

C11_Witness ==
    \E i, j \in Apps :
        /\ i # j
        /\ Name(i) = Name(j)
        /\ rounds = 1
        /\ task[i].pc = "done" /\ Unhealthy(i) /\ task[i].email.attempted
        /\ task[j].pc = "done" /\ Unhealthy(j) /\ Silent(task[j])
        /\ events[Name(i)] = <<"application_down">>


-----------------------------------------------------------------------------
(* C12 *)

\* Goroutine i has issued its GET.
Probed(i) == task[i].resp \in Responses

\* Goroutine i exists and has not returned.
InFlight(i) == task[i].pc \notin {"idle", "done"}

C12_Rounds ==
    /\ mainPc # "wg.Wait" => mu = 0 /\ \A i \in Apps : task[i] = IdleTask
    /\ mainPc = "wg.Wait" => rounds >= 1 /\ \A i \in Apps : task[i].pc # "idle"
    /\ \A i \in Apps :
          /\ task[i].pc = "checkApplication" => ~Probed(i)
          /\ task[i].pc \notin {"idle", "checkApplication"} => (Probed(i) <=> App(i).Enabled)

C12_Step ==
    /\ rounds' # rounds =>
          /\ rounds' = rounds + 1
          /\ mainPc \in {"initial", "ticker"}
          /\ \A i \in Apps : ~InFlight(i) /\ task'[i].pc = "checkApplication"
    /\ \A i \in Apps :
          /\ task'[i].resp # task[i].resp =>
                \/ ~Probed(i) /\ task[i].pc = "checkApplication" /\ App(i).Enabled /\ rounds' = rounds
                \/ task'[i] = IdleTask /\ mainPc = "wg.Wait" /\ mainPc' \in {"NewTicker", "ticker"}
          /\ mainPc = "wg.Wait" /\ mainPc' # mainPc =>
                task[i].pc = "done" /\ (Probed(i) <=> App(i).Enabled)

\* C12: rounds never overlap: a round starts (at startup or on a tick) only when no
\* goroutine of an earlier round is left, goroutines exist only while main is in
\* wg.Wait, and in a round every enabled entry issues its GET exactly once: it has
\* not probed before checkApplication runs, probes there once, and has probed when the
\* round's wg.Wait returns.
C12_RoundsDoNotOverlap == []C12_Rounds /\ [][C12_Step]_vars

C12_Witness ==
    /\ rounds = 3
    /\ mainPc = "wg.Wait"
    /\ \E i, j \in Apps : /\ InFlight(i) /\ Probed(i)
                          /\ task[j].pc = "done" /\ Probed(j)


-----------------------------------------------------------------------------
(* C13 *)

\* Name n is configured, and every entry carrying it is disabled.
Disabled(n) ==
    /\ \E i \in Apps : Name(i) = n
    /\ \A i \in Apps : Name(i) = n => ~App(i).Enabled

\* C13: a disabled application is never probed in any round: its goroutine issues no
\* GET and returns at once without taking the lock or sending anything, its counter
\* stays 0 and no Alert or Recovery is ever emitted for it.
C13_DisabledNeverProbed ==
    /\ \A i \in Apps :
          ~App(i).Enabled =>
              /\ ~Probed(i)
              /\ task[i].pc \in {"idle", "checkApplication", "done"}
              /\ Silent(task[i])
              /\ mu # i
    /\ \A n \in AllNames :
          Disabled(n) =>
              /\ alertTracker[n] = 0
              /\ streak[n] = 0
              /\ events[n] = <<>>

C13_Witness ==
    \E i, j \in Apps :
        /\ ~App(i).Enabled
        /\ task[i].pc = "done"
        /\ rounds = 3
        /\ events[Name(i)] = <<>>
        /\ App(j).Enabled
        /\ events[Name(j)] = <<"application_down", "application_recovery">>


-----------------------------------------------------------------------------
(* C14 *)

\* What a receiver holding `secret` computes over the body it received.
ReceiverSignature(body, secret) == [scheme |-> "sha256=", key |-> secret, msg |-> body]

\* C14: every webhook POST actually sent carries the X-AppMonitor-Signature header if
\* and only if a non-empty secret is configured; the header then is what a receiver
\* computes with that secret over exactly the body of the request, and two requests with
\* equal bodies carry equal signatures.
C14_WebhookSignature ==
    /\ \A i \in Apps :
          LET w == task[i].webhook
          IN /\ w.posted =>
                  /\ w.signed <=> config.Webhook.Secret # ""
                  /\ w.signed => w.signature = ReceiverSignature(w.body, config.Webhook.Secret)
                  /\ ~w.signed => w.signature = NoSignature
                  /\ w.body = Marshal(w.payload)
             /\ ~w.posted => ~w.signed /\ w.signature = NoSignature
    /\ \A i, j \in Apps :
          task[i].webhook.posted /\ task[j].webhook.posted
              => (task[i].webhook.body = task[j].webhook.body
                    => task[i].webhook.signature = task[j].webhook.signature)

C14_Witness ==
    \E i, j \in Apps :
        /\ i # j
        /\ task[i].webhook.posted /\ task[i].webhook.signed
        /\ task[j].webhook.posted /\ task[j].webhook.signed
        /\ task[i].webhook.signature.key = "s3cret"
        /\ task[i].webhook.payload.Event = "application_recovery"
        /\ task[i].webhook.signature # task[j].webhook.signature


-----------------------------------------------------------------------------
(* C15 *)

\* C15: a configuration error (file unreadable, invalid JSON, invalid check interval)
\* ends the process before the first round: no goroutine is started, nothing is probed,
\* counted or sent. No probe failure and no delivery failure ends it: with a loadable
\* configuration and a positive interval main never exits, whatever they return.
C15_ConfigErrorFatalAtStartup ==
    /\ startup \in ConfigErrors =>
          /\ mainPc \in {"loadConfig", "fatal"}
          /\ rounds = 0
          /\ mu = 0
          /\ \A i \in Apps : task[i] = IdleTask
          /\ \A n \in AllNames : alertTracker[n] = 0 /\ events[n] = <<>>
    /\ startup \notin ConfigErrors => mainPc # "fatal"
    /\ startup = "ok" => mainPc \notin {"fatal", "panic"}
    /\ mainPc = "fatal" => rounds = 0

C15_Witness ==
    /\ mainPc = "fatal"
    /\ startup = "invalid interval"


-----------------------------------------------------------------------------
(* C16 *)

\* Name n is being processed: a goroutine holds the lock for it.
Processing(n) == mu # 0 /\ Name(mu) = n

\* C16: the integer counter refines the specified machine over (consecutiveFailures,
\* alertSent): run on the same outcomes in the order the lock is taken, both have emitted
\* the same sequence of Alert and Recovery events for every application, and between
\* outcomes alertSent holds exactly when the counter is >= 3, the counter being
\* consecutiveFailures, plus one once alertSent holds.
C16_RefinesSpecifiedMachine ==
    \A n \in AllNames :
        /\ specEvents[n] = events[n]
        /\ spec[n].consecutiveFailures = streak[n] \/ (Processing(n) /\ task[mu].pc \in RecoveryPcs)
        /\ ~Processing(n) =>
              /\ spec[n].alertSent <=> alertTracker[n] >= AlertSentMark
              /\ alertTracker[n] =
                    spec[n].consecutiveFailures + (IF spec[n].alertSent THEN 1 ELSE 0)

C16_Witness ==
    \E n \in AllNames :
        /\ specEvents[n] = <<"application_down", "application_recovery", "application_down">>
        /\ events[n] = specEvents[n]
        /\ alertTracker[n] = 4
        /\ spec[n] = [consecutiveFailures |-> 3, alertSent |-> TRUE]
        /\ mu = 0


-----------------------------------------------------------------------------
(* C17 *)

\* Goroutine i is at or inside a call of sendEmail or sendWebhook.
Delivering(i) ==
    task[i].pc \in {"alert.sendEmail", "alert.sendWebhook",
                    "recovery.sendEmail", "recovery.sendWebhook"}

C17_OneSender ==
    /\ Cardinality({i \in Apps : Delivering(i)}) <= 1
    /\ \A i \in Apps : Delivering(i) => mu = i

C17_Step ==
    \A i \in Apps :
        Delivering(i) =>
            /\ \A j \in Apps \ {i} :
                  /\ ~Leaves(j, "sendAlert")
                  /\ ~Leaves(j, "sendRecoveryNotice")
                  /\ InCritical(j)' = InCritical(j)
            /\ UNCHANGED <<alertTracker, events, streak>>

\* C17: deliveries are serialized process-wide: at most one goroutine at a time is
\* inside a send, it holds the lock, and while it delivers no other goroutine takes a
\* step of sendAlert or sendRecoveryNotice (their probes may go on): no counter changes
\* and no event is decided, for any application, until the lock is released.
C17_DeliverySerialized == []C17_OneSender /\ [][C17_Step]_vars

C17_Witness ==
    \E i, j \in Apps :
        /\ Name(i) # Name(j)
        /\ task[i].pc = "recovery.sendWebhook"
        /\ task[j].pc = "sendAlert"
        /\ alertTracker[Name(j)] = 1


-----------------------------------------------------------------------------
(* C18 *)

\* What goroutine i has sent names its own application.
C18_OwnName ==
    \A i \in Apps :
        /\ task[i].email.attempted =>
              /\ task[i].email.body.Application = Name(i)
              /\ task[i].email.body.URL = App(i).URL
              /\ task[i].email.subject \in {AlertSubject(App(i)), RecoverySubject(App(i))}
        /\ task[i].webhook.called =>
              /\ task[i].webhook.payload.Application = Name(i)
              /\ task[i].webhook.payload.URL = App(i).URL
        /\ task[i].webhook.posted => task[i].webhook.body["application"] = Name(i)

C18_Step ==
    \A i \in Apps :
        task'[i] # task[i] /\ rounds' = rounds /\ mainPc' = mainPc =>
            \A n \in AllNames \ {Name(i)} :
                /\ alertTracker'[n] = alertTracker[n]
                /\ events'[n] = events[n]
                /\ streak'[n] = streak[n]

\* C18: a step of a goroutine processing an outcome of one application changes neither
\* the counter nor the events of any application of another name, and every email and
\* webhook it sends names its own application.
C18_OtherApplicationsUntouched == []C18_OwnName /\ [][C18_Step]_vars

C18_Witness ==
    \E i, j \in Apps :
        /\ Name(i) # Name(j)
        /\ task[i].pc = "done"
        /\ task[i].webhook.payload.Event = "application_recovery"
        /\ alertTracker[Name(i)] = 0
        /\ alertTracker[Name(j)] = 4
        /\ task[j].pc = "done"


-----------------------------------------------------------------------------
(* C19 *)

AwaitsLock(i) == i \in Apps /\ task[i].pc \in {"sendAlert", "sendRecoveryNotice"}

\* The mutex is held only by a goroutine that is inside sendAlert or sendRecoveryNotice,
\* a round in progress can always take a step, and between rounds the mutex is free, no
\* goroutine is left and the next tick starts a round.
C19_NoDeadlock ==
    /\ mu # 0 => mu \in Apps /\ InCritical(mu)
    /\ mainPc = "wg.Wait" => ENABLED FairNext
    /\ mainPc \in {"NewTicker", "ticker"} =>
          /\ mu = 0
          /\ \A i \in Apps : task[i] = IdleTask
    /\ mainPc = "ticker" /\ rounds < MaxFairRounds => ENABLED FairTick

C19_RoundCompletes == (mainPc = "wg.Wait") ~> (mainPc \in {"NewTicker", "ticker"})

C19_LockAcquired ==
    \A i \in GoroutineIds : AwaitsLock(i) ~> (i \in Apps /\ task[i].pc \in AlertPcs \cup RecoveryPcs \cup {"done"})

C19_LockReleased ==
    \A i \in GoroutineIds : (mu = i) ~> (mu = 0 /\ task[i].pc = "done")

\* C19: under fair scheduling every started round completes: each goroutine that waits
\* for the mutex gets it, each holder releases it, wg.Wait returns, nothing deadlocks
\* and the next tick can start a round.
C19_EveryRoundCompletes ==
    /\ []C19_NoDeadlock
    /\ C19_RoundCompletes
    /\ C19_LockAcquired
    /\ C19_LockReleased

\* Both goroutines of the second round wait for the mutex; the first round ended.
C19_Witness ==
    /\ rounds = 2
    /\ mainPc = "wg.Wait"
    /\ \A i \in Apps : AwaitsLock(i)
    /\ \E i, j \in Apps : task[i].pc = "sendAlert" /\ task[j].pc = "sendRecoveryNotice"


-----------------------------------------------------------------------------
(* C20 *)

RecoveryWebhook(i) ==
    task[i].webhook.called /\ task[i].pc \in {"recovery.reset", "done"}
        /\ Healthy(i, task[i].resp)

\* C20: every Recovery webhook payload, and every body posted for it, has event
\* "application_recovery", failure_count 0, no error field, the configured expected code
\* and status_code 200, whatever the healthy probe returned.
C20_RecoveryPayload ==
    \A i \in Apps :
        /\ RecoveryWebhook(i) =>
              LET p == task[i].webhook.payload
              IN /\ p.Event = "application_recovery"
                 /\ p.FailureCount = 0
                 /\ p.Error = NoErr
                 /\ p.ExpectedCode = App(i).ExpectedCode
                 /\ p.StatusCode = RecoveryStatusCode
                 /\ task[i].webhook.posted =>
                       LET b == task[i].webhook.body
                       IN /\ b["event"] = "application_recovery"
                          /\ b["failure_count"] = 0
                          /\ "error" \notin DOMAIN b
                          /\ b["expected_code"] = App(i).ExpectedCode
                          /\ b["status_code"] = RecoveryStatusCode
        /\ task[i].webhook.called /\ task[i].webhook.payload.Event = "application_recovery"
              => RecoveryWebhook(i)

\* A recovery posted for an application whose healthy probe returned 204.
C20_Witness ==
    \E i \in Apps :
        /\ RecoveryWebhook(i)
        /\ task[i].webhook.posted
        /\ task[i].resp.StatusCode # RecoveryStatusCode
        /\ task[i].webhook.body["status_code"] # task[i].webhook.body["expected_code"]

====
